---- MODULE Spec2Model ----
(***************************************************************************)
(* StorachaFS: the FUSE adapter of internal/fuse (directory node           *)
(* StorachaFS with Lookup and Readdir, file node StorachaFile with Open    *)
(* and Read) running against an HTTP gateway that answers every GET        *)
(* nondeterministically.  Go strings are sequences of one-character        *)
(* strings; byte slices likewise; hashInode is FNV-1a on 8 byte limbs.     *)
(***************************************************************************)
EXTENDS Integers, Sequences, FiniteSets, TLC

(* ------------------------------ bounds --------------------------------- *)
\* number of request goroutines the FUSE bridge runs at once
NumProcs == 2
\* cap on the directory-listing GETs of one run
MaxListFetches == 2
\* cap on the content GETs of one run
MaxDataFetches == 2
\* GETs of either kind in one run
MaxFetches == 3
\* number of file inodes the bridge can hold
MaxFiles == 2

Procs == 1..NumProcs
FileIds == 1..MaxFiles

(* ------------------------- Go strings package -------------------------- *)
RECURSIVE IndexOf(_, _, _)
\* first position >= i of character c in s, 0 when there is none
IndexOf(s, c, i) ==
    IF i > Len(s) THEN 0
    ELSE IF s[i] = c THEN i ELSE IndexOf(s, c, i + 1)

\* strings.Split(s, c)[0]
SplitFirst(s, c) ==
    LET k == IndexOf(s, c, 1)
    IN  IF k = 0 THEN s ELSE SubSeq(s, 1, k - 1)

RECURSIVE TrimLeft(_, _)
TrimLeft(s, c) ==
    IF s # <<>> /\ Head(s) = c THEN TrimLeft(Tail(s), c) ELSE s

RECURSIVE TrimRight(_, _)
TrimRight(s, c) ==
    IF s # <<>> /\ s[Len(s)] = c THEN TrimRight(SubSeq(s, 1, Len(s) - 1), c) ELSE s

\* strings.Trim(s, c)
Trim(s, c) == TrimRight(TrimLeft(s, c), c)

RECURSIVE Split(_, _)
\* strings.Split(s, c): Split("", c) is one empty segment
Split(s, c) ==
    LET k == IndexOf(s, c, 1)
    IN  IF k = 0 THEN <<s>>
        ELSE <<SubSeq(s, 1, k - 1)>> \o Split(SubSeq(s, k + 1, Len(s)), c)

\* strings.HasSuffix(s, suf)
HasSuffix(s, suf) ==
    /\ Len(suf) <= Len(s)
    /\ SubSeq(s, Len(s) - Len(suf) + 1, Len(s)) = suf

(* ------------------------------ hashInode ------------------------------ *)
\* ASCII codes of the characters the model's strings use
Ascii ==
    [c \in {"/", "?", ".", "Q", "a", "b", "d", "f", "g", "i", "p", "r", "s", "x"} |->
        CASE c = "/" -> 47 [] c = "?" -> 63 [] c = "." -> 46 [] c = "Q" -> 81
          [] c = "a" -> 97 [] c = "b" -> 98 [] c = "d" -> 100 [] c = "f" -> 102
          [] c = "g" -> 103 [] c = "i" -> 105 [] c = "p" -> 112 [] c = "r" -> 114
          [] c = "s" -> 115 [] c = "x" -> 120]

RECURSIVE XorByte(_, _, _)
\* bitwise xor of two values below 2^n
XorByte(a, b, n) ==
    IF n = 0 THEN 0
    ELSE ((a + b) % 2) + 2 * XorByte(a \div 2, b \div 2, n - 1)

\* FNV-1a 64-bit offset basis 0xcbf29ce484222325, little-endian bytes
FnvOffset == <<37, 35, 34, 132, 228, 156, 242, 203>>
\* FNV 64-bit prime 0x100000001b3, little-endian bytes
FnvPrime == <<179, 1, 0, 0, 0, 1, 0, 0>>

\* column k (1..8) of the schoolbook product of two 8-limb numbers
MulColumn(x, y, k) ==
    LET RECURSIVE Acc(_)
        Acc(i) == IF i > k THEN 0 ELSE x[i] * y[k + 1 - i] + Acc(i + 1)
    IN  Acc(1)

RECURSIVE MulCarry(_, _, _, _)
\* limbs k..8 of x*y mod 2^64, given the carry into limb k
MulCarry(x, y, k, carry) ==
    IF k > 8 THEN <<>>
    ELSE LET t == MulColumn(x, y, k) + carry
         IN  <<t % 256>> \o MulCarry(x, y, k + 1, t \div 256)

\* x * y mod 2^64
Mul64(x, y) == MulCarry(x, y, 1, 0)

RECURSIVE FnvWrite(_, _)
\* fnv.New64a().Write: for each byte, xor into the low byte, multiply by the prime
FnvWrite(h, s) ==
    IF s = <<>> THEN h
    ELSE FnvWrite(Mul64(<<XorByte(h[1], Ascii[Head(s)], 8)>> \o Tail(h), FnvPrime), Tail(s))

\* hashInode(s): the 64-bit sum as 8 little-endian bytes
hashInode(s) == FnvWrite(FnvOffset, s)

(* --------------------------- model universe ---------------------------- *)
\* the object-access marker of gateway hrefs
Ipfs == <<"i", "p", "f", "s">>
Slash == <<"/">>

\* content identifiers: the mount's root, a directory child, two file children
Qroot == <<"Q", "r">>
Qdocs == <<"Q", "d">>
Qreadme == <<"Q", "f">>
Qreadme2 == <<"Q", "g">>

\* names the kernel looks up: a file, a directory, a name no listing has
NameFile == <<"a">>
NameDir == <<"d">>
NameNone == <<"x">>
Names == {NameFile, NameDir, NameNone}

\* hrefs of the anchors of a listing page
FileHref(cid, name) == Slash \o Ipfs \o Slash \o cid \o Slash \o name
DirHref(cid, name) == FileHref(cid, name) \o Slash
HrefParent == <<".", ".", "/">>
HrefNoMarker == Slash \o NameFile
HrefHome == Slash

\* listing documents, as the sequence of href attributes doc.Find("a") visits
DocA == <<HrefParent, HrefNoMarker, DirHref(Qdocs, NameDir), FileHref(Qreadme, NameFile)>>
DocB ==
    <<DirHref(Qdocs, NameFile), FileHref(Qreadme2, NameFile) \o <<"?", "x">>,
      FileHref(Qreadme, NameFile), DirHref(Qdocs, NameDir)>>
DocErrPage == <<HrefHome, <<>>>>

\* file payloads
Payload == <<"a", "b", "d">>
ErrPage == <<"x", "x">>

\* what http.Get followed by io.ReadAll can produce: a transport error, or a
\* response with a status, the bytes read and whether the read failed part-way
RespTransportErr == [err |-> TRUE, status |-> 0, body |-> <<>>, readErr |-> FALSE]
RespOK(b) == [err |-> FALSE, status |-> 200, body |-> b, readErr |-> FALSE]
RespReadErr(b) == [err |-> FALSE, status |-> 200, body |-> b, readErr |-> TRUE]
RespNotFound(b) == [err |-> FALSE, status |-> 404, body |-> b, readErr |-> FALSE]
NoResp == [err |-> FALSE, status |-> 0, body |-> <<>>, readErr |-> FALSE]

ListResponses ==
    {RespTransportErr, RespOK(DocA), RespOK(DocB),
     RespReadErr(SubSeq(DocA, 1, 2)), RespNotFound(DocErrPage)}
DataResponses ==
    {RespTransportErr, RespOK(Payload),
     RespReadErr(SubSeq(Payload, 1, 1)), RespNotFound(ErrPage)}

\* a response the HTTP layer reports as a success
Succeeded(r) == ~r.err /\ ~r.readErr /\ r.status = 200

\* syscall.ENOENT
ENOENT == 2
\* fuse.S_IFDIR | 0555
ModeDir == 16749
\* fuse.S_IFREG | 0444
ModeFile == 33060

(* ------------------------- listing parsing ----------------------------- *)
\* the body of Readdir's Each callback: the entries one anchor appends
ReaddirAnchor(cid, raw) ==
    LET href == SplitFirst(raw, "?")
        parts == Split(Trim(href, "/"), "/")
        name == parts[Len(parts)]
        isDir == HasSuffix(href, Slash)
    IN  IF href = <<>> \/ href = HrefParent THEN <<>>
        ELSE IF Len(parts) < 2 \/ parts[1] # Ipfs THEN <<>>
        ELSE IF name = <<>> THEN <<>>
        ELSE <<[Ino |-> hashInode(cid \o Slash \o name),
                Name |-> name,
                Mode |-> IF isDir THEN ModeDir ELSE ModeFile]>>

RECURSIVE ReaddirEntries(_, _)
\* doc.Find("a").Each(...) of Readdir: entries in document order
ReaddirEntries(cid, doc) ==
    IF doc = <<>> THEN <<>>
    ELSE ReaddirAnchor(cid, Head(doc)) \o ReaddirEntries(cid, Tail(doc))

\* a callback that ends the scan at any well-formed anchor, whatever its name
LookupAnchorFound_AnyName(raw, name) ==
    LET href == SplitFirst(raw, "?")
        parts == Split(Trim(href, "/"), "/")
    IN  /\ Len(parts) >= 2
        /\ parts[1] = Ipfs

\* the callback of Lookup's EachWithBreak: TRUE when the anchor ends the scan
LookupAnchorFound(raw, name) ==
    LET href == SplitFirst(raw, "?")
        parts == Split(Trim(href, "/"), "/")
    IN  /\ HasSuffix(href, Slash \o name) \/ href = name
        /\ Len(parts) >= 2
        /\ parts[1] = Ipfs

RECURSIVE LookupScan(_, _)
\* doc.Find("a").EachWithBreak(...) of Lookup: childCID and isDir after the scan
LookupScan(doc, name) ==
    IF doc = <<>> THEN [childCID |-> <<>>, isDir |-> FALSE]
    ELSE IF LookupAnchorFound(Head(doc), name)
         THEN LET href == SplitFirst(Head(doc), "?")
              IN  [childCID |-> Split(Trim(href, "/"), "/")[2],
                   isDir |-> HasSuffix(href, Slash)]
         ELSE LookupScan(Tail(doc), name)

\* the parse results of every response the gateway can give, computed once
ListingOf == [r \in ListResponses |-> ReaddirEntries(Qroot, r.body)]
ScanOf == [r \in ListResponses |-> [name \in Names |-> LookupScan(r.body, name)]]

(* ------------------------------- state --------------------------------- *)
VARIABLES
    cached,       \* StorachaFS.cached of the root directory node
    cache,        \* StorachaFS.cache of the root directory node
    mu,           \* StorachaFS.mu: 0 when unlocked, else the goroutine holding it
    files,        \* the StorachaFile nodes the bridge holds, by slot
    pc,           \* where each request goroutine is
    call,         \* the arguments of each goroutine's current call
    last,         \* the most recent return of a handler
    listFetches,  \* number of listing GETs issued so far
    dataFetches,  \* number of content GETs issued so far
    firstEnum,    \* what the first successful Readdir returned
    rdLoads,      \* number of Readdir fetches that ended in a successful return
    listFailed,   \* some listing GET has failed in transport or while being read
    mount         \* the run of the mount command: its flags, environment and progress

vars == <<cached, cache, mu, files, pc, call, last, listFetches, dataFetches,
          firstEnum, rdLoads, listFailed, mount>>

\* the variables of the mounted filesystem
fsVars == <<cached, cache, mu, files, pc, call, last, listFetches, dataFetches,
            firstEnum, rdLoads, listFailed>>

\* sf.data: a nil slice, or a (possibly empty) byte slice
NilData == [nil |-> TRUE, b |-> <<>>]
Bytes(b) == [nil |-> FALSE, b |-> b]

NoFile ==
    [used |-> FALSE, name |-> <<>>, cid |-> <<>>, data |-> NilData,
     ino |-> <<>>, lkName |-> <<>>, lkCID |-> <<>>, stores |-> 0]

\* NewStorachaFile(name, cid, debug): the node's own fields
NewStorachaFile(name, cid) == [name |-> name, cid |-> cid, data |-> NilData]

\* NewStorachaFS(rootCID, debug): the node's own fields
NewStorachaFS(rootCID) == [cid |-> rootCID, cache |-> <<>>, cached |-> FALSE]

NoCall == [op |-> "none", name |-> <<>>, file |-> 0, fetched |-> FALSE, url |-> <<>>]

\* the part of a request URL after "https://storacha.link"
ListingURL(cid) == Slash \o Ipfs \o Slash \o cid \o Slash
ContentURL(cid) == Slash \o Ipfs \o Slash \o cid
NoStatfs ==
    [Blocks |-> 0, Bfree |-> 0, Bavail |-> 0, Bsize |-> 0, Frsize |-> 0, NameLen |-> 0]
NoNode == [kind |-> "none", ino |-> <<>>, mode |-> 0, name |-> <<>>, cid |-> <<>>]
\* what "if debug { log.Printf(line) }" writes to the log
Logf(dbg, line) == IF dbg THEN line ELSE <<>>

NoRet ==
    [op |-> "none", name |-> <<>>, file |-> 0, errno |-> 0,
     entries |-> <<>>, node |-> NoNode, data |-> <<>>, resp |-> NoResp,
     fetched |-> FALSE, off |-> 0, n |-> 0, mode |-> 0, size |-> 0,
     statfs |-> NoStatfs, log |-> <<>>]

\* the mount command before it runs, and once the filesystem is being served
\* a nil *client.Client, and the return of the latest call into package auth
NilClient == "nil"
NoAuthRet == [op |-> "none", key |-> <<>>, client |-> NilClient, err |-> FALSE,
              performed |-> FALSE]

NoMount ==
    [pc |-> "serving", email |-> "", privateKeyPath |-> "", proofPath |-> "",
     spaceDID |-> "", roFlag |-> FALSE, readOnly |-> FALSE, uploadPath |-> "",
     argIsCID |-> TRUE, envKey |-> "", envProof |-> "", envSpace |-> "",
     authMethod |-> "", authEmail |-> "", configFrom |-> "", uploads |-> 0,
     finalCID |-> "", debug |-> FALSE, CachedClients |-> <<>>, authRet |-> NoAuthRet]

\* the filesystem state NewStorachaFS leaves behind
InitFS ==
    /\ cached = NewStorachaFS(Qroot).cached
    /\ cache = NewStorachaFS(Qroot).cache
    /\ mu = 0
    /\ files = [f \in FileIds |-> NoFile]
    /\ pc = [p \in Procs |-> "idle"]
    /\ call = [p \in Procs |-> NoCall]
    /\ last = NoRet
    /\ listFetches = 0
    /\ dataFetches = 0
    /\ firstEnum = [set |-> FALSE, entries |-> <<>>]
    /\ rdLoads = 0
    /\ listFailed = FALSE

Init == InitFS /\ mount = NoMount

\* goroutines that have entered Readdir and not yet taken the lock
WaitingReaddir == {q \in Procs : pc[q] = "rd_lock"}

\* room for one more listing GET, counting the Readdir calls already admitted
ListBudget ==
    /\ listFetches + Cardinality(WaitingReaddir) < MaxListFetches
    /\ listFetches + Cardinality(WaitingReaddir) + dataFetches < MaxFetches

\* room for one more content GET
DataBudget ==
    /\ dataFetches < MaxDataFetches
    /\ listFetches + Cardinality(WaitingReaddir) + dataFetches < MaxFetches

(* --------------------------- StorachaFS.Readdir ------------------------ *)
\* a Readdir that never consults sfs.cached
ReaddirHit_Never == FALSE

\* the test "if sfs.cached" at the head of Readdir
ReaddirHit == cached

\* a Readdir that drops the error of io.ReadAll, as Open does
ReaddirFetchFailed_IgnoreRead(r) == r.err

\* the early ENOENT returns of Readdir: http.Get failed, or io.ReadAll failed
ReaddirFetchFailed(r) == r.err \/ r.readErr

\* a Readdir whose sfs.mu.Lock() never waits
LockFree_NoLock == TRUE

\* sfs.mu.Lock() can return: nobody holds the mutex
LockFree == mu = 0

\* the bridge dispatches a Readdir on goroutine p, which reaches sfs.mu.Lock()
ReaddirCall(p) ==
    /\ pc[p] = "idle"
    /\ ListBudget
    /\ pc' = [pc EXCEPT ![p] = "rd_lock"]
    /\ call' = [call EXCEPT ![p] = [NoCall EXCEPT !.op = "Readdir"]]
    /\ UNCHANGED <<cached, cache, mu, files, last, listFetches, dataFetches,
                   firstEnum, rdLoads, listFailed>>
    /\ UNCHANGED mount

\* p takes the lock; a cached listing is returned at once (the deferred Unlock
\* runs in the same step), otherwise the GET is issued with the lock held
ReaddirEnter(p) ==
    /\ pc[p] = "rd_lock"
    /\ LockFree
    /\ IF ReaddirHit
       THEN /\ pc' = [pc EXCEPT ![p] = "idle"]
            /\ call' = [call EXCEPT ![p] = NoCall]
            /\ last' = [NoRet EXCEPT !.op = "Readdir", !.entries = cache]
            /\ UNCHANGED <<mu, listFetches>>
       ELSE /\ mu' = p
            /\ pc' = [pc EXCEPT ![p] = "rd_wait"]
            /\ call' = [call EXCEPT ![p].fetched = TRUE, ![p].url = ListingURL(Qroot)]
            /\ listFetches' = listFetches + 1
            /\ UNCHANGED last
    /\ UNCHANGED <<cached, cache, files, dataFetches, firstEnum, rdLoads, listFailed>>
    /\ UNCHANGED mount

\* the GET of Readdir returns r; the handler runs to its return
ReaddirRespD(p, r, dbg) ==
    /\ pc[p] = "rd_wait"
    /\ pc' = [pc EXCEPT ![p] = "idle"]
    /\ call' = [call EXCEPT ![p] = NoCall]
    /\ mu' = 0
    /\ IF ReaddirFetchFailed(r)
       THEN /\ last' = [NoRet EXCEPT !.op = "Readdir", !.errno = ENOENT,
                                     !.resp = r, !.fetched = TRUE,
                                     !.log = Logf(dbg, <<"Readdir", Qroot>>)]
            /\ listFailed' = TRUE
            /\ UNCHANGED <<cached, cache, firstEnum, rdLoads>>
       ELSE LET entries == ListingOf[r]
            IN  /\ cache' = entries
                /\ cached' = TRUE
                /\ last' = [NoRet EXCEPT !.op = "Readdir", !.entries = entries,
                                         !.resp = r, !.fetched = TRUE,
                                     !.log = Logf(dbg, <<"Readdir", Qroot>>)]
                /\ firstEnum' = IF firstEnum.set THEN firstEnum
                                ELSE [set |-> TRUE, entries |-> entries]
                /\ rdLoads' = rdLoads + 1
                /\ UNCHANGED listFailed
    /\ UNCHANGED <<files, listFetches, dataFetches>>
    /\ UNCHANGED mount

\* a Readdir whose failure returns leave the lock held
ReaddirResp_KeepLockOnError(p, r) ==
    /\ pc[p] = "rd_wait"
    /\ pc' = [pc EXCEPT ![p] = "idle"]
    /\ call' = [call EXCEPT ![p] = NoCall]
    /\ IF ReaddirFetchFailed(r)
       THEN /\ last' = [NoRet EXCEPT !.op = "Readdir", !.errno = ENOENT,
                                     !.resp = r, !.fetched = TRUE]
            /\ listFailed' = TRUE
            /\ UNCHANGED <<mu, cached, cache, firstEnum, rdLoads>>
       ELSE LET entries == ListingOf[r]
            IN  /\ mu' = 0
                /\ cache' = entries
                /\ cached' = TRUE
                /\ last' = [NoRet EXCEPT !.op = "Readdir", !.entries = entries,
                                         !.resp = r, !.fetched = TRUE]
                /\ firstEnum' = IF firstEnum.set THEN firstEnum
                                ELSE [set |-> TRUE, entries |-> entries]
                /\ rdLoads' = rdLoads + 1
                /\ UNCHANGED listFailed
    /\ UNCHANGED <<files, listFetches, dataFetches>>
    /\ UNCHANGED mount

\* the handler on a node built with the debug flag of the mount command
ReaddirResp(p, r) == ReaddirRespD(p, r, mount.debug)

(* --------------------------- StorachaFS.Lookup ------------------------- *)
\* the bridge dispatches Lookup(name) on goroutine p, which issues its GET
LookupCall(p, name) ==
    /\ pc[p] = "idle"
    /\ ListBudget
    /\ pc' = [pc EXCEPT ![p] = "lk_wait"]
    /\ call' = [call EXCEPT ![p] = [NoCall EXCEPT !.op = "Lookup", !.name = name,
                                                  !.fetched = TRUE,
                                                  !.url = ListingURL(Qroot)]]
    /\ listFetches' = listFetches + 1
    /\ UNCHANGED <<cached, cache, mu, files, last, dataFetches, firstEnum, rdLoads,
                   listFailed>>
    /\ UNCHANGED mount

\* slots of the bridge that hold the inode with stable attribute ino
SlotsOf(ino) == {f \in FileIds : files[f].used /\ files[f].ino = ino}
FreeSlots == {f \in FileIds : ~files[f].used}
MinOf(S) == CHOOSE x \in S : \A y \in S : x <= y

\* the node Lookup builds once the scan has found childCID
LookupNode(childCID, isDir, name) ==
    IF isDir
    THEN [kind |-> "dir", ino |-> hashInode(childCID \o Slash \o name), mode |-> ModeDir,
          name |-> <<>>, cid |-> NewStorachaFS(childCID).cid]
    ELSE [kind |-> "file", ino |-> hashInode(childCID \o Slash \o name), mode |-> ModeFile,
          name |-> NewStorachaFile(childCID, name).name,
          cid |-> NewStorachaFile(childCID, name).cid]

NodeOf ==
    [r \in ListResponses |-> [name \in Names |->
        LookupNode(ScanOf[r][name].childCID, ScanOf[r][name].isDir, name)]]

\* the GET of Lookup returns r; the handler runs to its return.  A returned file
\* node enters the bridge unless the bridge already holds an inode with the same
\* stable attribute, which it then keeps.
LookupRespD(p, r, dbg) ==
    LET name == call[p].name
        scan == ScanOf[r][name]
        node == NodeOf[r][name]
        ret == [NoRet EXCEPT !.op = "Lookup", !.name = name, !.resp = r,
                             !.fetched = TRUE,
                             !.log = Logf(dbg, <<"Lookup", name, Qroot>>)]
    IN  /\ pc[p] = "lk_wait"
        /\ pc' = [pc EXCEPT ![p] = "idle"]
        /\ call' = [call EXCEPT ![p] = NoCall]
        /\ IF r.err \/ r.readErr \/ scan.childCID = <<>>
           THEN /\ last' = [ret EXCEPT !.errno = ENOENT]
                /\ UNCHANGED files
           ELSE /\ last' = [ret EXCEPT !.node = node]
                /\ IF node.kind = "file" /\ SlotsOf(node.ino) = {}
                   THEN /\ FreeSlots # {}
                        /\ files' = [files EXCEPT ![MinOf(FreeSlots)] =
                                        [used |-> TRUE, name |-> node.name, cid |-> node.cid,
                                         data |-> NilData, ino |-> node.ino,
                                         lkName |-> name, lkCID |-> scan.childCID,
                                         stores |-> 0]]
                   ELSE UNCHANGED files
        /\ listFailed' = (listFailed \/ r.err \/ r.readErr)
        /\ UNCHANGED <<cached, cache, mu, listFetches, dataFetches, firstEnum, rdLoads>>
        /\ UNCHANGED mount

\* the handler on a node built with the debug flag of the mount command
LookupResp(p, r) == LookupRespD(p, r, mount.debug)

(* ------------------------------ StorachaFile --------------------------- *)
\* an Open that fetches whatever sf.data holds
OpenMiss_Always(f) == TRUE

\* the test "if sf.data == nil" of Open
OpenMiss(f) == files[f].data.nil

\* Open on goroutine p: a node with data returns at once, otherwise the GET is issued
OpenCall(p, f) ==
    /\ pc[p] = "idle"
    /\ files[f].used
    /\ IF OpenMiss(f)
       THEN /\ DataBudget
            /\ pc' = [pc EXCEPT ![p] = "op_wait"]
            /\ call' = [call EXCEPT ![p] = [NoCall EXCEPT !.op = "Open", !.file = f,
                                                          !.fetched = TRUE,
                                                          !.url = ContentURL(files[f].cid)]]
            /\ dataFetches' = dataFetches + 1
            /\ UNCHANGED last
       ELSE /\ last' = [NoRet EXCEPT !.op = "Open", !.file = f]
            /\ UNCHANGED <<pc, call, dataFetches>>
    /\ UNCHANGED <<cached, cache, mu, files, listFetches, firstEnum, rdLoads, listFailed>>
    /\ UNCHANGED mount

\* the GET of Open returns r; whatever io.ReadAll read is stored
OpenRespD(p, r, dbg) ==
    LET f == call[p].file
        ret == [NoRet EXCEPT !.op = "Open", !.file = f, !.resp = r,
                             !.fetched = TRUE,
                             !.log = Logf(dbg, <<"Fetching", files[f].name,
                                                 files[f].cid>>)]
    IN  /\ pc[p] = "op_wait"
        /\ pc' = [pc EXCEPT ![p] = "idle"]
        /\ call' = [call EXCEPT ![p] = NoCall]
        /\ IF r.err
           THEN /\ last' = [ret EXCEPT !.errno = ENOENT]
                /\ UNCHANGED files
           ELSE /\ last' = ret
                /\ files' = [files EXCEPT ![f].data = Bytes(r.body),
                                          ![f].stores = @ + 1]
        /\ UNCHANGED <<cached, cache, mu, listFetches, dataFetches, firstEnum, rdLoads,
                       listFailed>>
        /\ UNCHANGED mount

\* the handler on a node built with the debug flag of the mount command
OpenResp(p, r) == OpenRespD(p, r, mount.debug)

\* offsets and buffer lengths of the Reads the kernel sends
MaxOff == 3
ReadLens == {2}

Min(a, b) == IF a <= b THEN a ELSE b

\* a Read that forgets the length of dest
ReadResult_IgnoreLen(d, off, n) ==
    IF off >= Len(d.b) THEN <<>> ELSE SubSeq(d.b, off + 1, Len(d.b))

\* a Read that slices the payload without the length test, and so faults on nil
ReadResult_NoLenTest(d, off, n) ==
    IF d.nil THEN <<"fault">>
    ELSE SubSeq(d.b, off + 1, Min(off + n, Len(d.b)))

\* the bytes Read returns for sf.data = d
ReadResult(d, off, n) ==
    IF off >= Len(d.b) THEN <<>>
    ELSE SubSeq(d.b, off + 1, Min(off + n, Len(d.b)))

\* Read(dest, off) with len(dest) = n on goroutine p
Read(p, f, off, n) ==
    /\ pc[p] = "idle"
    /\ files[f].used
    /\ last' = [NoRet EXCEPT !.op = "Read", !.file = f, !.off = off, !.n = n,
                             !.data = ReadResult(files[f].data, off, n)]
    /\ UNCHANGED <<cached, cache, mu, files, pc, call, listFetches, dataFetches,
                   firstEnum, rdLoads, listFailed>>
    /\ UNCHANGED mount

\* a Getattr that reports no size
GetattrSize_Zero(d) == 0

\* out.Size = uint64(len(sf.data)); a nil slice has length 0
GetattrSize(d) == Len(d.b)

\* a file Getattr that reports the size only when the debug flag is off
FileGetattrD_QuietSize(p, f, dbg) ==
    /\ pc[p] = "idle"
    /\ files[f].used
    /\ last' = [NoRet EXCEPT !.op = "Getattr", !.file = f, !.mode = ModeFile,
                             !.size = IF dbg THEN 0 ELSE GetattrSize(files[f].data),
                             !.log = Logf(dbg, <<"Getattr", files[f].name>>)]
    /\ UNCHANGED <<cached, cache, mu, files, pc, call, listFetches, dataFetches,
                   firstEnum, rdLoads, listFailed>>
    /\ UNCHANGED mount

\* StorachaFile.Getattr on goroutine p; the timestamps (time.Now) are left out
FileGetattrD(p, f, dbg) ==
    /\ pc[p] = "idle"
    /\ files[f].used
    /\ last' = [NoRet EXCEPT !.op = "Getattr", !.file = f, !.mode = ModeFile,
                             !.size = GetattrSize(files[f].data),
                             !.log = Logf(dbg, <<"Getattr", files[f].name>>)]
    /\ UNCHANGED <<cached, cache, mu, files, pc, call, listFetches, dataFetches,
                   firstEnum, rdLoads, listFailed>>
    /\ UNCHANGED mount

\* a file Getattr that first waits for the lock of the directory node
FileGetattr_UnderDirLock(p, f) ==
    /\ mu = 0
    /\ pc[p] = "idle"
    /\ files[f].used
    /\ last' = [NoRet EXCEPT !.op = "Getattr", !.file = f, !.mode = ModeFile,
                             !.size = GetattrSize(files[f].data)]
    /\ UNCHANGED <<cached, cache, mu, files, pc, call, listFetches, dataFetches,
                   firstEnum, rdLoads, listFailed>>
    /\ UNCHANGED mount

\* the handler on a node built with the debug flag of the mount command
FileGetattr(p, f) == FileGetattrD(p, f, mount.debug)

(* ---------------------- StorachaFS.Getattr / Statfs --------------------- *)
\* the figures Statfs writes into out
StatfsOut ==
    [Blocks |-> 1000000000, Bfree |-> 1000000000, Bavail |-> 1000000000,
     Bsize |-> 4096, Frsize |-> 4096, NameLen |-> 255]

\* a directory Getattr whose answer depends on whether the listing is loaded
DirGetattr_WhenLoaded(p) ==
    /\ pc[p] = "idle"
    /\ last' = [NoRet EXCEPT !.op = "DirGetattr",
                             !.mode = IF cached THEN 0 ELSE ModeDir]
    /\ UNCHANGED <<cached, cache, mu, files, pc, call, listFetches, dataFetches,
                   firstEnum, rdLoads, listFailed>>
    /\ UNCHANGED mount

\* StorachaFS.Getattr on goroutine p
DirGetattr(p) ==
    /\ pc[p] = "idle"
    /\ last' = [NoRet EXCEPT !.op = "DirGetattr", !.mode = ModeDir]
    /\ UNCHANGED <<cached, cache, mu, files, pc, call, listFetches, dataFetches,
                   firstEnum, rdLoads, listFailed>>
    /\ UNCHANGED mount

\* StorachaFS.Statfs on goroutine p
Statfs(p) ==
    /\ pc[p] = "idle"
    /\ last' = [NoRet EXCEPT !.op = "Statfs", !.statfs = StatfsOut]
    /\ UNCHANGED <<cached, cache, mu, files, pc, call, listFetches, dataFetches,
                   firstEnum, rdLoads, listFailed>>
    /\ UNCHANGED mount

(* ---------------------------- specification ---------------------------- *)
Next ==
    \E p \in Procs :
        \/ ReaddirCall(p)
        \/ ReaddirEnter(p)
        \/ \E r \in ListResponses : ReaddirResp(p, r)
        \/ \E name \in Names : LookupCall(p, name)
        \/ \E r \in ListResponses : LookupResp(p, r)
        \/ \E f \in FileIds : OpenCall(p, f)
        \/ \E r \in DataResponses : OpenResp(p, r)
        \/ \E f \in FileIds, off \in 0..MaxOff, n \in ReadLens : Read(p, f, off, n)
        \/ \E f \in FileIds : FileGetattr(p, f)
        \/ DirGetattr(p)
        \/ Statfs(p)

Spec == Init /\ [][Next]_vars

\* the handlers of the directory node alone
NextDir ==
    \E p \in Procs :
        \/ ReaddirCall(p)
        \/ ReaddirEnter(p)
        \/ \E r \in ListResponses : ReaddirResp(p, r)
        \/ \E name \in Names : LookupCall(p, name)
        \/ \E r \in ListResponses : LookupResp(p, r)
        \/ DirGetattr(p)
        \/ Statfs(p)

\* fair scheduling: every GET of a Readdir returns, and a goroutine that is blocked
\* in sfs.mu.Lock() gets the lock if it is free again and again (sync.Mutex hands
\* the lock to a starving waiter)
Fairness ==
    \A p \in Procs :
        /\ WF_vars(\E r \in ListResponses : ReaddirResp(p, r))
        /\ SF_vars(ReaddirEnter(p))

SpecFair == Init /\ [][NextDir]_vars /\ Fairness

\* the handlers as goroutines of P run them on nodes built with debug = dbg
NextWith(P, dbg) ==
    \E p \in P :
        \/ ReaddirCall(p)
        \/ ReaddirEnter(p)
        \/ \E r \in ListResponses : ReaddirRespD(p, r, dbg)
        \/ \E name \in Names : LookupCall(p, name)
        \/ \E r \in ListResponses : LookupRespD(p, r, dbg)
        \/ \E f \in FileIds : OpenCall(p, f)
        \/ \E r \in DataResponses : OpenRespD(p, r, dbg)
        \/ \E f \in FileIds, off \in 0..MaxOff, n \in ReadLens : Read(p, f, off, n)
        \/ \E f \in FileIds : FileGetattrD(p, f, dbg)
        \/ DirGetattr(p)
        \/ Statfs(p)

\* one goroutine: the kernel sends the operations one after the other
SeqProcs == {1}

\* the mount command was given --debug or not
InitDebug == InitFS /\ \E dbg \in BOOLEAN : mount = [NoMount EXCEPT !.debug = dbg]

NextDebug == NextWith(SeqProcs, mount.debug)

\* a sequence of operations on a filesystem mounted with or without --debug
SpecDebug == InitDebug /\ [][NextDebug]_vars

(* ------------------------------- claims -------------------------------- *)
\* a goroutine completes a handler that had a GET in flight
Completes(p, where) == pc[p] = where /\ pc'[p] = "idle"

\* C1: N >= 2 Lookup calls running concurrently on the same directory node whose
\* listing is not loaded issue exactly one listing GET between them.
C1_ConcurrentLookupsFetchOnce ==
    LET running == {p \in Procs : call[p].op = "Lookup"}
    IN  (~cached /\ Cardinality(running) >= 2)
            => Cardinality({p \in running : call[p].fetched}) = 1

\* C2: when the fetched listing has the anchor /ipfs/<childCID>/<name>/, Lookup(name)
\* succeeds with a directory node for childCID, directory mode and the stable
\* identifier hashInode(childCID + "/" + name).
C2_DirectoryLookupSucceeds ==
    \A cid \in {Qdocs, Qreadme, Qreadme2} :
        (/\ last.op = "Lookup"
         /\ Succeeded(last.resp)
         /\ \E i \in DOMAIN last.resp.body : last.resp.body[i] = DirHref(cid, last.name))
        => /\ last.errno = 0
           /\ last.node.kind = "dir"
           /\ last.node.cid = cid
           /\ last.node.mode = ModeDir
           /\ last.node.ino = hashInode(cid \o Slash \o last.name)

\* C3: the file node Lookup(name) creates for the listing entry (name, childCID) has
\* cid = childCID and name = name, its Open requests the content of childCID, and
\* with payload P stored Read(0, L) is the first min(L, len(P)) bytes of P and
\* Read(len(P), L) is empty.
C3_FileNodeOpensChildCID ==
    /\ \A f \in FileIds :
          files[f].used =>
              /\ files[f].cid = files[f].lkCID
              /\ files[f].name = files[f].lkName
              /\ \A p \in Procs :
                    (pc[p] = "op_wait" /\ call[p].file = f)
                        => call[p].url = ContentURL(files[f].lkCID)
    /\ (last.op = "Read" /\ ~files[last.file].data.nil) =>
          LET P == files[last.file].data.b
          IN  /\ last.off = 0 => last.data = SubSeq(P, 1, Min(last.n, Len(P)))
              /\ last.off = Len(P) => last.data = <<>>

\* C4: after a first Readdir has succeeded, every later Readdir returns the same
\* entries as the first without a listing GET, so Readdir has loaded exactly once.
C4_EnumerateIdempotent ==
    [][firstEnum.set =>
          \A p \in Procs :
              (pc[p] = "rd_lock" /\ pc'[p] # "rd_lock")
                  => /\ pc'[p] = "idle"
                     /\ last'.op = "Readdir"
                     /\ last'.errno = 0
                     /\ last'.entries = firstEnum.entries
                     /\ ~last'.fetched
                     /\ listFetches' = listFetches
                     /\ rdLoads' = 1]_vars

\* a later Readdir has returned the first Readdir's non-empty listing from memory
C4_Witness ==
    /\ firstEnum.set
    /\ firstEnum.entries # <<>>
    /\ last.op = "Readdir"
    /\ ~last.fetched
    /\ last.entries = firstEnum.entries

\* C5: once the listing is loaded, no later Lookup or Readdir issues a listing GET.
C5_SharedMemoization ==
    [][cached => listFetches' = listFetches]_vars

\* the stable identifiers hashInode(cid + "/" + name) of the file anchors
\* /ipfs/<cid>/<name> that response r lists for name
AnchorInos ==
    [r \in ListResponses |-> [name \in Names |->
        {hashInode(cid \o Slash \o name) :
            cid \in {c \in {Qdocs, Qreadme, Qreadme2} :
                        \E i \in DOMAIN r.body :
                            SplitFirst(r.body[i], "?") = FileHref(c, name)}}]]

\* the entries the anchors of response r stand for
AnchorEntries == [r \in ListResponses |-> ReaddirEntries(Qroot, r.body)]

\* C6: a Lookup or Readdir that fails because its GET failed leaves cached and cache
\* as they were (a Readdir leaves cached false); the next Lookup, and the next
\* Readdir on an unloaded node, issues a GET of its own, and a handler whose GET
\* succeeded answers from that response.
C6_FailedFetchNotMemoized ==
    [][\A p \in Procs :
          /\ ((Completes(p, "rd_wait") \/ Completes(p, "lk_wait"))
                /\ (last'.resp.err \/ last'.resp.readErr))
                => /\ last'.errno = ENOENT
                   /\ cached' = cached
                   /\ cache' = cache
                   /\ Completes(p, "rd_wait") => ~cached'
          /\ (~cached /\ pc[p] = "rd_lock" /\ pc'[p] # "rd_lock")
                => pc'[p] = "rd_wait" /\ listFetches' = listFetches + 1
          /\ (pc[p] = "idle" /\ pc'[p] = "lk_wait") => listFetches' = listFetches + 1
          /\ (Completes(p, "rd_wait") /\ Succeeded(last'.resp))
                => /\ last'.errno = 0
                   /\ last'.entries = AnchorEntries[last'.resp]
          /\ (Completes(p, "lk_wait") /\ Succeeded(last'.resp) /\ last'.errno = 0)
                => last'.node.ino \in AnchorInos[last'.resp][last'.name]]_vars

\* after a failed listing GET the node is loaded by a later GET of Readdir
C6_Witness ==
    /\ listFailed
    /\ last.op = "Readdir"
    /\ last.fetched
    /\ Succeeded(last.resp)
    /\ last.errno = 0
    /\ last.entries # <<>>
    /\ cached
    /\ cache = last.entries

\* C7: a listing GET answered with a non-success status makes the Lookup or Readdir
\* return ENOENT, and its body is not stored as the node's listing.
C7_NonSuccessStatusIsFailure ==
    [][\A p \in Procs :
          ((Completes(p, "rd_wait") \/ Completes(p, "lk_wait"))
             /\ ~last'.resp.err /\ last'.resp.status # 200)
            => /\ last'.errno = ENOENT
               /\ cached' = cached
               /\ cache' = cache]_vars

\* C8: an Open whose content GET fails (transport, non-success status, body read)
\* returns ENOENT and stores nothing.
C8_FailedOpenStoresNothing ==
    [][\A p \in Procs :
          (Completes(p, "op_wait") /\ ~Succeeded(last'.resp))
            => /\ last'.errno = ENOENT
               /\ files' = files]_vars

\* C9: once sf.data is set it is never assigned again.
C9_PayloadWriteOnce ==
    [][\A f \in FileIds :
          ~files[f].data.nil
            => /\ files'[f].data = files[f].data
               /\ files'[f].stores = files[f].stores]_vars

\* C10: at most one content GET is outstanding per file node.
C10_OneOutstandingFetch ==
    \A f \in FileIds :
        Cardinality({p \in Procs : pc[p] = "op_wait" /\ call[p].file = f}) <= 1

(* ------------------- Read on any memoized payload --------------------- *)
\* longest payload, largest offset and largest buffer of the Reads tried
MaxLen == 4

\* a payload of k bytes
PayloadOfLen(k) == [i \in 1..k |-> <<"a", "b", "d">>[(i % 3) + 1]]

\* a file node, as Lookup builds it, after an Open has stored a payload of any
\* length up to MaxLen
InitRead ==
    /\ cached = NewStorachaFS(Qroot).cached
    /\ cache = NewStorachaFS(Qroot).cache
    /\ mu = 0
    /\ pc = [p \in Procs |-> "idle"]
    /\ call = [p \in Procs |-> NoCall]
    /\ last = NoRet
    /\ listFetches = 1
    /\ dataFetches = 1
    /\ firstEnum = [set |-> FALSE, entries |-> <<>>]
    /\ rdLoads = 0
    /\ listFailed = FALSE
    /\ mount = NoMount
    /\ \E k \in 0..MaxLen :
          files = [f \in FileIds |->
                      IF f = 1
                      THEN [used |-> TRUE,
                            name |-> NewStorachaFile(Qreadme, NameFile).name,
                            cid |-> NewStorachaFile(Qreadme, NameFile).cid,
                            data |-> Bytes(PayloadOfLen(k)),
                            ino |-> hashInode(Qreadme \o Slash \o NameFile),
                            lkName |-> NameFile, lkCID |-> Qreadme, stores |-> 1]
                      ELSE NoFile]

NextRead ==
    \E p \in Procs, f \in FileIds, off \in 0..(MaxLen + 1), n \in 0..(MaxLen + 1) :
        Read(p, f, off, n)

SpecRead == InitRead /\ [][NextRead]_vars

\* C12: with payload P memoized, Read(off, L) returns no error, the empty result
\* when off >= len(P), and otherwise exactly P[off .. min(off+L, len(P))), never
\* more than L bytes.
C12_ReadSlice ==
    last.op = "Read" =>
        LET P == files[last.file].data.b
            end == Min(last.off + last.n, Len(P))
        IN  /\ last.errno = 0
            /\ Len(last.data) <= last.n
            /\ last.off >= Len(P) => last.data = <<>>
            /\ last.off < Len(P) =>
                  /\ Len(last.data) = end - last.off
                  /\ \A i \in 1..Len(last.data) : last.data[i] = P[last.off + i]

\* a Read inside the payload whose buffer reaches past its end, and one whose
\* buffer ends inside it
C12_Witness ==
    /\ last.op = "Read"
    /\ last.off > 0
    /\ last.off < Len(files[last.file].data.b)
    /\ last.data # <<>>
    /\ \/ last.off + last.n > Len(files[last.file].data.b)
       \/ last.off + last.n < Len(files[last.file].data.b)

\* C11: once the listing is loaded, no step of any handler changes the stored
\* listing, and cached never returns to false.
C11_LoadedListingFrozen ==
    [][cached => (cached' /\ cache' = cache)]_vars

\* with the listing loaded, Lookup, Readdir, Getattr and Statfs have run since
C11_Witness ==
    /\ cached
    /\ cache # <<>>
    /\ listFetches >= 2
    /\ last.op \in {"DirGetattr", "Statfs"}

\* the descriptor the claimed parsing rules give for one anchor, as a sequence of
\* zero or one elements
ClaimedAnchor(raw) ==
    LET target == SplitFirst(raw, "?")
        segs == Split(Trim(target, "/"), "/")
    IN  IF target = <<>> \/ target = HrefParent \/ Len(segs) < 2 \/ segs[1] # Ipfs
        THEN <<>>
        ELSE <<[name |-> segs[Len(segs)], contentID |-> segs[2],
                isDirectory |-> HasSuffix(target, Slash)]>>

RECURSIVE ClaimedListing(_)
ClaimedListing(doc) ==
    IF doc = <<>> THEN <<>>
    ELSE ClaimedAnchor(Head(doc)) \o ClaimedListing(Tail(doc))

\* a listing entry of the code read as a descriptor; fuse.DirEntry has the fields
\* Ino, Name and Mode and no content-id
EntryDescriptor(e) ==
    [name |-> e.Name,
     contentID |-> IF "Cid" \in DOMAIN e THEN e.Cid ELSE <<>>,
     isDirectory |-> e.Mode = ModeDir]

\* C13: parsing a listing keeps exactly the well-formed child anchors in document
\* order, each as (name = last segment, content-id = second segment, directory
\* iff the target ends in "/").
C13_ListingDescriptors ==
    (last.op = "Readdir" /\ last.fetched /\ last.errno = 0) =>
        LET want == ClaimedListing(last.resp.body)
        IN  /\ Len(last.entries) = Len(want)
            /\ \A i \in 1..Len(want) : EntryDescriptor(last.entries[i]) = want[i]

(* --------------------------- the mount command ------------------------- *)
\* a flag or environment variable is unset ("") or holds a value
FlagValues == {"", "v"}

\* a GetAuthMethodFromArgs without the both-given test: the e-mail wins
GetAuthMethodFromArgs_EmailWins(em, key, proof, space) ==
    LET hasEmail == em # ""
        hasPrivateKey == key # "" /\ proof # "" /\ space # ""
    IN  IF hasEmail THEN [method |-> "email", err |-> FALSE]
        ELSE IF hasPrivateKey THEN [method |-> "private_key", err |-> FALSE]
        ELSE [method |-> "none", err |-> FALSE]

\* auth.GetAuthMethodFromArgs
GetAuthMethodFromArgs(em, key, proof, space) ==
    LET hasEmail == em # ""
        hasPrivateKey == key # "" /\ proof # "" /\ space # ""
    IN  IF hasEmail /\ hasPrivateKey THEN [method |-> "", err |-> TRUE]
        ELSE IF hasEmail THEN [method |-> "email", err |-> FALSE]
        ELSE IF hasPrivateKey THEN [method |-> "private_key", err |-> FALSE]
        ELSE [method |-> "none", err |-> FALSE]

\* auth.LoadAuthConfigFromEnv: an error unless all three variables are set
LoadAuthConfigFromEnv(key, proof, space) ==
    [err |-> (key = "" \/ proof = "" \/ space = ""),
     PrivateKeyPath |-> key, ProofPath |-> proof, SpaceDID |-> space]

\* auth.LoadAuthConfigFromFlags
LoadAuthConfigFromFlags(key, proof, space) ==
    [err |-> FALSE, PrivateKeyPath |-> key, ProofPath |-> proof, SpaceDID |-> space]

\* auth.ValidateAuthConfig: filesOK says whether both files exist and the DID parses
ValidateAuthConfig(config, filesOK) ==
    config.PrivateKeyPath # "" /\ config.ProofPath # "" /\ filesOK

\* the package variables after flag parsing, with the process environment
InitMount ==
    /\ InitFS
    /\ \E em \in {"", "user@example.com"}, key \in FlagValues, proof \in FlagValues,
          space \in FlagValues, ro \in BOOLEAN, up \in {"", "dir"}, isCid \in BOOLEAN,
          ekey \in FlagValues, eproof \in FlagValues, espace \in FlagValues :
          mount = [NoMount EXCEPT !.pc = "start", !.email = em, !.privateKeyPath = key,
                                  !.proofPath = proof, !.spaceDID = space,
                                  !.roFlag = ro, !.readOnly = ro, !.uploadPath = up,
                                  !.argIsCID = isCid, !.envKey = ekey,
                                  !.envProof = eproof, !.envSpace = espace]

\* Run, from os.MkdirAll to the end of the authentication switch
MountAuth(mkdirOK, filesOK) ==
    LET am == GetAuthMethodFromArgs(mount.email, mount.privateKeyPath, mount.proofPath,
                                    mount.spaceDID)
        fromFlags == mount.privateKeyPath # "" /\ mount.proofPath # "" /\ mount.spaceDID # ""
        config == IF fromFlags
                  THEN LoadAuthConfigFromFlags(mount.privateKeyPath, mount.proofPath,
                                               mount.spaceDID)
                  ELSE LoadAuthConfigFromEnv(mount.envKey, mount.envProof, mount.envSpace)
        fatal == [mount EXCEPT !.pc = "fatal"]
    IN  /\ mount.pc = "start"
        /\ mount' =
              IF ~mkdirOK THEN fatal
              ELSE IF mount.readOnly THEN [mount EXCEPT !.pc = "authed"]
              ELSE IF am.err THEN fatal
              ELSE IF am.method = "email"
                   THEN [mount EXCEPT !.pc = "authed", !.authMethod = "email",
                                      !.authEmail = mount.email]
              ELSE IF am.method = "private_key"
                   THEN IF config.err \/ ~ValidateAuthConfig(config, filesOK)
                        THEN [fatal EXCEPT !.authMethod = "private_key"]
                        ELSE [mount EXCEPT !.pc = "authed", !.authMethod = "private_key",
                                           !.configFrom = IF fromFlags THEN "flags" ELSE "env",
                                           !.authEmail = "private-key-auth"]
              ELSE [mount EXCEPT !.pc = "authed", !.authMethod = "none", !.readOnly = TRUE]
        /\ UNCHANGED fsVars

\* a Run that uploads without looking at readOnly
MountResolve_NoReadOnlyTest(uploadOK) ==
    /\ mount.pc = "authed"
    /\ mount' =
          IF mount.uploadPath # "" \/ ~mount.argIsCID
          THEN IF ~uploadOK THEN [mount EXCEPT !.pc = "fatal", !.uploads = 1]
               ELSE [mount EXCEPT !.pc = "resolved", !.uploads = 1, !.finalCID = "uploaded"]
          ELSE [mount EXCEPT !.pc = "resolved", !.finalCID = "arg"]
    /\ UNCHANGED fsVars

\* Run, from the CID-or-path test to finalCID; uploadOK is uploadDirectory's outcome
MountResolve(uploadOK) ==
    /\ mount.pc = "authed"
    /\ mount' =
          IF mount.uploadPath # "" \/ ~mount.argIsCID
          THEN IF mount.readOnly THEN [mount EXCEPT !.pc = "fatal"]
               ELSE IF ~uploadOK THEN [mount EXCEPT !.pc = "fatal", !.uploads = 1]
               ELSE [mount EXCEPT !.pc = "resolved", !.uploads = 1, !.finalCID = "uploaded"]
          ELSE [mount EXCEPT !.pc = "resolved", !.finalCID = "arg"]
    /\ UNCHANGED fsVars

\* Run, from NewStorachaFS to fs.Mount; mountOK is fs.Mount's outcome
MountServe(mountOK) ==
    /\ mount.pc = "resolved"
    /\ mount' = [mount EXCEPT !.pc = IF mountOK THEN "mounted" ELSE "fatal"]
    /\ UNCHANGED fsVars

NextMount ==
    \/ \E mkdirOK \in BOOLEAN, filesOK \in BOOLEAN : MountAuth(mkdirOK, filesOK)
    \/ \E uploadOK \in BOOLEAN : MountResolve(uploadOK)
    \/ \E mountOK \in BOOLEAN : MountServe(mountOK)

SpecMount == InitMount /\ [][NextMount]_vars

\* C14: run without --read-only, --email and the private-key flags but with the
\* three STORACHA_ variables set, mount chooses private-key authentication with the
\* configuration taken from the environment, not the read-only fallback.
C14_EnvSelectsPrivateKey ==
    (/\ mount.pc \in {"authed", "resolved", "mounted"}
     /\ ~mount.roFlag
     /\ mount.email = ""
     /\ mount.privateKeyPath = "" /\ mount.proofPath = "" /\ mount.spaceDID = ""
     /\ mount.envKey # "" /\ mount.envProof # "" /\ mount.envSpace # "")
    => /\ mount.authMethod = "private_key"
       /\ mount.configFrom = "env"
       /\ ~mount.readOnly

\* goroutines whose Readdir has its listing GET in flight
ReaddirFetching == {p \in Procs : pc[p] = "rd_wait"}

\* C15: concurrent Readdir calls on the node are serialized by sfs.mu: at most one
\* of them has a listing GET in flight, it holds the lock, and once the listing is
\* stored every waiting Readdir returns it without fetching.
C15_ReaddirSerialized ==
    [][/\ Cardinality({p \in Procs : pc'[p] = "rd_wait"}) <= 1
       /\ \A p \in Procs :
             /\ pc'[p] = "rd_wait" => mu' = p
             /\ (cached /\ pc[p] = "rd_lock" /\ pc'[p] # "rd_lock")
                   => /\ pc'[p] = "idle"
                      /\ last'.op = "Readdir"
                      /\ last'.errno = 0
                      /\ ~last'.fetched
                      /\ last'.entries = cache
                      /\ listFetches' = listFetches]_vars

\* one Readdir is fetching with the lock held while another waits for the lock
C15_Witness ==
    /\ ReaddirFetching # {}
    /\ WaitingReaddir # {}
    /\ mu \in ReaddirFetching

\* C16: for a listing and a name n, the identifier Readdir reports for the entry
\* named n equals the identifier of the node Lookup(n) returns.
C16_SameStableIdentifier ==
    (last.op = "Lookup" /\ last.errno = 0) =>
        \A i \in DOMAIN ListingOf[last.resp] :
            ListingOf[last.resp][i].Name = last.name
                => ListingOf[last.resp][i].Ino = last.node.ino

\* C17: once sf.data is set, an Open that starts afterwards returns success without
\* a content GET and without touching sf.data, and sf.data never becomes nil again.
C17_OpenIdempotent ==
    [][/\ \A f \in FileIds : ~files[f].data.nil => ~files'[f].data.nil
       /\ \A p \in Procs :
             (pc[p] = "idle" /\ pc'[p] = "op_wait") => files[call'[p].file].data.nil
       /\ (pc' = pc /\ last'.op = "Open")
             => /\ ~files[last'.file].data.nil
                /\ ~last'.fetched
                /\ last'.errno = 0
                /\ files' = files
                /\ dataFetches' = dataFetches]_vars

\* an Open on a node with a stored payload has returned without fetching
C17_Witness ==
    /\ last.op = "Open"
    /\ ~last.fetched
    /\ last.errno = 0
    /\ ~files[last.file].data.nil
    /\ files[last.file].data.b # <<>>

\* positions of the listing's well-formed anchors whose name is the looked-up name
NamedAt(doc, name) ==
    {i \in 1..Len(ClaimedListing(doc)) : ClaimedListing(doc)[i].name = name}

\* C18: when several entries of the listing carry the looked-up name, the node
\* Lookup returns has the content-id and the directory/file type of the earliest
\* of them in document order.
C18_FirstMatchWins ==
    (last.op = "Lookup" /\ last.errno = 0) =>
        /\ NamedAt(last.resp.body, last.name) # {}
        /\ LET first == ClaimedListing(last.resp.body)
                            [MinOf(NamedAt(last.resp.body, last.name))]
           IN  /\ ScanOf[last.resp][last.name].childCID = first.contentID
               /\ (last.node.kind = "dir") = first.isDirectory

\* for every response and name, whether the listing has a well-formed anchor so named
NamedIn == [r \in ListResponses |-> [name \in Names |-> NamedAt(r.body, name) # {}]]

\* C19: when the listing was fetched and parsed and none of its entries carries the
\* looked-up name, Lookup returns ENOENT, returns no node (so no inode with a stable
\* identifier is created) and leaves the directory node as it was.
C19_NoMatchIsENOENT ==
    [][\A p \in Procs :
          (/\ pc[p] = "lk_wait"
           /\ pc'[p] = "idle"
           /\ ~last'.resp.err
           /\ ~last'.resp.readErr
           /\ ~NamedIn[last'.resp][last'.name])
          => /\ last'.op = "Lookup"
             /\ last'.errno = ENOENT
             /\ last'.node = NoNode
             /\ files' = files
             /\ cached' = cached
             /\ cache' = cache
             /\ mu' = mu]_vars

\* a Lookup of a name the fetched listing does not hold has returned ENOENT
C19_Witness ==
    /\ last.op = "Lookup"
    /\ last.name = NameNone
    /\ Succeeded(last.resp)
    /\ ClaimedListing(last.resp.body) # <<>>
    /\ ~NamedIn[last.resp][last.name]
    /\ last.errno = ENOENT

\* C20: whatever state a file node is in, its Getattr reports a regular file with
\* mode bits 0444 and size len(sf.data), which is 0 while sf.data is nil; Getattr
\* issues no GET and leaves sf.data as it was.
C20_FileGetattr ==
    [][(pc' = pc /\ last'.op = "Getattr")
          => /\ last'.mode = ModeFile
             /\ last'.size = Len(files[last'.file].data.b)
             /\ (files[last'.file].data.nil => last'.size = 0)
             /\ ~last'.fetched
             /\ files' = files
             /\ dataFetches' = dataFetches
             /\ listFetches' = listFetches]_vars

\* Getattr has reported the length of a stored, non-empty payload
C20_Witness ==
    /\ last.op = "Getattr"
    /\ ~files[last.file].data.nil
    /\ last.size = Len(files[last.file].data.b)
    /\ last.size > 0

\* C21: in every state of the directory node, loaded or not, Getattr reports
\* S_IFDIR|0555 and Statfs reports the fixed figures; neither issues a listing GET
\* nor changes sfs.cache, sfs.cached or the lock.
C21_DirGetattrStatfsFixed ==
    [][/\ (pc' = pc /\ last'.op = "DirGetattr")
             => /\ last'.mode = ModeDir
                /\ last'.errno = 0
       /\ (pc' = pc /\ last'.op = "Statfs")
             => /\ last'.statfs = StatfsOut
                /\ last'.errno = 0
       /\ (pc' = pc /\ last'.op \in {"DirGetattr", "Statfs"})
             => /\ ~last'.fetched
                /\ cached' = cached
                /\ cache' = cache
                /\ mu' = mu
                /\ listFetches' = listFetches]_vars

\* Getattr has answered on a directory node whose listing is loaded
C21_Witness ==
    /\ last.op = "DirGetattr"
    /\ last.mode = ModeDir
    /\ cached
    /\ cache # <<>>

\* C22: a Read on a file node whose sf.data is nil returns the empty result with
\* errno 0 for every offset >= 0, issues no GET and leaves sf.data nil.
C22_ReadUnfetched ==
    [][(pc' = pc /\ last'.op = "Read" /\ files[last'.file].data.nil)
          => /\ last'.data = <<>>
             /\ last'.errno = 0
             /\ ~last'.fetched
             /\ files' = files
             /\ files'[last'.file].data.nil
             /\ dataFetches' = dataFetches]_vars

\* a Read at a positive offset has returned empty on a node that holds no payload
C22_Witness ==
    /\ last.op = "Read"
    /\ last.off > 0
    /\ files[last.file].used
    /\ files[last.file].data.nil
    /\ files[last.file].stores = 0
    /\ last.data = <<>>

\* C23: while a Readdir holds the directory node's lock with its listing GET in
\* flight, every operation on another node can start, and one that is waiting for
\* its own GET can complete: no handler of a file node waits for that lock.
C23_NoCrossNodeBlocking ==
    (mu # 0 /\ ReaddirFetching # {}) =>
        \A p \in Procs :
            /\ (pc[p] = "idle") =>
                  \A f \in FileIds : files[f].used =>
                      /\ ENABLED FileGetattr(p, f)
                      /\ \A off \in 0..MaxOff, n \in ReadLens : ENABLED Read(p, f, off, n)
                      /\ (~OpenMiss(f) \/ DataBudget)
                            => ENABLED OpenCall(p, f)
            /\ (pc[p] = "op_wait") => \A r \in DataResponses : ENABLED OpenResp(p, r)

\* an Open on a file node has fetched and returned; the Readdir that holds the
\* directory's lock is still waiting for its GET
C23_Witness ==
    /\ mu # 0
    /\ ReaddirFetching # {}
    /\ last.op = "Open"
    /\ last.fetched
    /\ last.errno = 0
    /\ ~files[last.file].data.nil

\* C24: the lock is released on every return of Readdir, failures included: if
\* every GET returns and scheduling is fair, a Readdir that waits for the lock
\* eventually takes it and returns, also after earlier calls failed.
C24_WaitingReaddirCompletes ==
    \A p \in Procs : (pc[p] = "rd_lock") ~> (pc[p] = "idle")

\* a Readdir has just returned ENOENT after its GET, the lock is free again and
\* another Readdir is waiting for it
C24_Witness ==
    /\ last.op = "Readdir"
    /\ last.fetched
    /\ last.errno = ENOENT
    /\ mu = 0
    /\ WaitingReaddir # {}

\* what a run shows apart from its log: the return values, the GETs issued and
\* counted, and the state of every node
Observed ==
    <<cached, cache, mu, files, pc, call, [last EXCEPT !.log = <<>>], listFetches,
      dataFetches, firstEnum, rdLoads, listFailed>>

\* C25: the debug flag changes nothing but the log: whatever step a run takes with
\* the flag set one way, the same operation with the same gateway response on a
\* node built with the flag set the other way gives the same return value, the
\* same GETs and the same node states.
C25_DebugNoEffect ==
    [][\E o \in {Observed'} :
          ENABLED (NextWith(SeqProcs, ~mount.debug) /\ Observed' = o)]_vars

\* with --debug an Open has fetched a payload and written its line to the log
C25_Witness ==
    /\ mount.debug
    /\ last.op = "Open"
    /\ last.fetched
    /\ last.log # <<>>
    /\ ~files[last.file].data.nil

(* ------------------------------ package auth --------------------------- *)
\* e-mail addresses handed to EmailAuth: two well-formed ones, one without "@",
\* and the placeholder mount passes on after private-key authentication
EmailA == <<"u", "@", "d">>
EmailB == <<"v", "@", "d">>
EmailNoAt == <<"u">>
EmailPlaceholder == <<"p", "k", "-", "a">>
Emails == {EmailA, EmailB, EmailNoAt, EmailPlaceholder}

\* AuthConfig values: (PrivateKeyPath, ProofPath, SpaceDID)
AuthConfigs == {<<<<"k">>, <<"p">>, <<"s">>>>, <<<<"k">>, <<"q">>, <<"s">>>>}

\* fmt.Sprintf("pk:%s:%s:%s", ...) of PrivateKeyAuth
CacheKey(config) ==
    <<"p", "k", ":">> \o config[1] \o <<":">> \o config[2] \o <<":">> \o config[3]

\* emailAuth(email); remoteOK is the outcome of did.Parse, RequestAccess, the claim
\* poll and AddProofs together
emailAuth(email, remoteOK) ==
    IF Len(Split(email, "@")) # 2 THEN [client |-> NilClient, err |-> TRUE]
    ELSE IF ~remoteOK THEN [client |-> NilClient, err |-> TRUE]
    ELSE [client |-> "client", err |-> FALSE]

\* EmailAuth(email)
EmailAuth(email, remoteOK) ==
    LET cc == mount.CachedClients
        res == emailAuth(email, remoteOK)
    IN  /\ mount.pc = "serving"
        /\ mount' =
              IF email \in DOMAIN cc
              THEN [mount EXCEPT !.authRet = [op |-> "EmailAuth", key |-> email,
                                              client |-> cc[email], err |-> FALSE,
                                              performed |-> FALSE]]
              ELSE [mount EXCEPT !.CachedClients = (email :> res.client) @@ cc,
                                 !.authRet = [op |-> "EmailAuth", key |-> email,
                                              client |-> res.client, err |-> FALSE,
                                              performed |-> TRUE]]
        /\ UNCHANGED fsVars

\* PrivateKeyAuth(config); loadOK is the outcome of loadPrivateKey, loadProofs,
\* did.Parse, NewClient and AddProofs together
PrivateKeyAuth(config, loadOK) ==
    LET cc == mount.CachedClients
        cacheKey == CacheKey(config)
    IN  /\ mount.pc = "serving"
        /\ mount' =
              IF cacheKey \in DOMAIN cc
              THEN [mount EXCEPT !.authRet = [op |-> "PrivateKeyAuth", key |-> cacheKey,
                                              client |-> cc[cacheKey], err |-> FALSE,
                                              performed |-> FALSE]]
              ELSE IF ~loadOK
              THEN [mount EXCEPT !.authRet = [op |-> "PrivateKeyAuth", key |-> cacheKey,
                                              client |-> NilClient, err |-> TRUE,
                                              performed |-> TRUE]]
              ELSE [mount EXCEPT !.CachedClients = (cacheKey :> "client") @@ cc,
                                 !.authRet = [op |-> "PrivateKeyAuth", key |-> cacheKey,
                                              client |-> "client", err |-> FALSE,
                                              performed |-> TRUE]]
        /\ UNCHANGED fsVars

NextAuth ==
    \/ \E email \in Emails, remoteOK \in BOOLEAN : EmailAuth(email, remoteOK)
    \/ \E config \in AuthConfigs, loadOK \in BOOLEAN : PrivateKeyAuth(config, loadOK)

\* calls into package auth in one process, CachedClients empty at first
SpecAuth == Init /\ [][NextAuth]_vars

\* C26: every entry of CachedClients maps its key to a non-nil client, and a call
\* answered from the cache returns a non-nil client.
C26_CacheHoldsOnlyClients ==
    /\ \A k \in DOMAIN mount.CachedClients : mount.CachedClients[k] # NilClient
    /\ (mount.authRet.op = "EmailAuth" /\ ~mount.authRet.performed)
          => mount.authRet.client # NilClient

\* the flags of the run give an e-mail, and give all three private-key values
HasEmail == mount.email # ""
HasPrivateKey == mount.privateKeyPath # "" /\ mount.proofPath # "" /\ mount.spaceDID # ""

\* GetAuthMethodFromArgs on the flags of the run answers as C27 says
AuthMethodAsClaimed ==
    LET am == GetAuthMethodFromArgs(mount.email, mount.privateKeyPath, mount.proofPath,
                                    mount.spaceDID)
    IN  /\ (HasEmail /\ HasPrivateKey) => am.err
        /\ ~(HasEmail /\ HasPrivateKey) =>
              /\ ~am.err
              /\ am.method = IF HasEmail THEN "email"
                             ELSE IF HasPrivateKey THEN "private_key" ELSE "none"

\* the run has passed the authentication switch
PastAuth == mount.pc \in {"authed", "resolved", "mounted"}

\* C27 as stated: with an e-mail and all three private-key values given,
\* GetAuthMethodFromArgs returns an error and mount neither authenticates nor
\* mounts; otherwise it returns exactly one of "email", "private_key", "none".
C27_MutuallyExclusive ==
    /\ AuthMethodAsClaimed
    /\ (HasEmail /\ HasPrivateKey) =>
          /\ ~PastAuth
          /\ mount.authMethod = ""
          /\ mount.uploads = 0

\* C27 amended: the same, but mount aborts only when it is run without --read-only;
\* with --read-only it never looks at the authentication flags, chooses no method
\* and goes on to mount.
C27_MutuallyExclusiveUnlessReadOnly ==
    /\ AuthMethodAsClaimed
    /\ (HasEmail /\ HasPrivateKey /\ ~mount.roFlag) =>
          /\ ~PastAuth
          /\ mount.authMethod = ""
          /\ mount.uploads = 0
    /\ (HasEmail /\ HasPrivateKey /\ mount.roFlag) =>
          /\ mount.authMethod = ""
          /\ mount.authEmail = ""
          /\ mount.readOnly
          /\ mount.uploads = 0
    /\ (~(HasEmail /\ HasPrivateKey) /\ ~mount.roFlag /\ PastAuth) =>
          mount.authMethod = IF HasEmail THEN "email"
                             ELSE IF HasPrivateKey THEN "private_key" ELSE "none"

\* a run without --read-only that was given both an e-mail and the three
\* private-key values has stopped at the authentication switch
C27_Witness ==
    /\ HasEmail
    /\ HasPrivateKey
    /\ ~mount.roFlag
    /\ mount.pc = "fatal"
    /\ mount.authMethod = ""

\* the run is asked to upload: --upload is given or the first argument is no CID
UploadWanted == mount.uploadPath # "" \/ ~mount.argIsCID

\* C28: uploadDirectory is called only with readOnly off after the authentication
\* switch; a run that is read-only and asked to upload stops before any upload or
\* mount; a run that uploads mounts the uploaded CID, after the upload returned.
C28_ReadOnlyNeverUploads ==
    /\ mount.uploads > 0 => (~mount.readOnly /\ ~mount.roFlag /\ UploadWanted)
    /\ (mount.readOnly /\ UploadWanted) =>
          /\ mount.pc \in {"start", "authed", "fatal"}
          /\ mount.uploads = 0
          /\ mount.finalCID = ""
    /\ (mount.pc \in {"resolved", "mounted"} /\ UploadWanted) =>
          /\ mount.uploads = 1
          /\ mount.finalCID = "uploaded"
    /\ (mount.pc \in {"resolved", "mounted"} /\ ~UploadWanted) =>
          /\ mount.uploads = 0
          /\ mount.finalCID = "arg"

\* a run that fell back to read-only for want of credentials and was asked to
\* upload has stopped without uploading
C28_Witness ==
    /\ mount.authMethod = "none"
    /\ mount.readOnly
    /\ UploadWanted
    /\ mount.pc = "fatal"
    /\ mount.uploads = 0
====
